---- MODULE Spec2Model ----
(***************************************************************************)
(* TinyExprX (src/tinyexprx.c, src/tinyexprx.h): tokenizer, symbol lookup, *)
(* recursive-descent parser, expression tree on a heap of nodes, constant  *)
(* folding and the tree-walking evaluator, driven by a caller that         *)
(* compiles one expression, evaluates it, writes bound storage and frees.  *)
(*                                                                         *)
(* Characters are one-character strings and a text is a sequence of them.  *)
(* A double is an exact decimal n * 10^e or NaN; a d_cx value is either a  *)
(* literal re + im*I or the application of a native function to values     *)
(* (the C library's functions are left uninterpreted).  Node addresses are *)
(* the ordinal of the malloc call that returned them.                      *)
(***************************************************************************)
EXTENDS Integers, Sequences, FiniteSets, TLC

(***************************************************************************)
(* Type codes (tinyexprx.h:28-38, tinyexprx.c:49-55).                      *)
(***************************************************************************)
TX_VARIABLE == 0
TX_CONSTANT == 1
TX_FUNCTION0 == 8
TX_FUNCTION1 == 9
TX_FUNCTION2 == 10
TX_FUNCTION3 == 11
TX_CLOSURE0 == 16
TX_CLOSURE1 == 17
TX_CLOSURE2 == 18
TX_FLAG_PURE == 32
TOK_NULL == 23
TOK_ERROR == 24
TOK_END == 25
TOK_SEP == 26
TOK_OPEN == 27
TOK_CLOSE == 28
TOK_NUMBER_R == 29
TOK_NUMBER_I == 30
TOK_VARIABLE == 31
TOK_INFIX == 32

NULL == 0

\* (TYPE) & 0x0000001F
TYPE_MASK(type) == type % 32
\* ((TYPE) & TX_FLAG_PURE) != 0
IS_PURE(type) == (type \div 32) % 2 = 1
\* ((TYPE) & TX_FUNCTION0) != 0
IS_FUNCTION(type) == (type \div 8) % 2 = 1
\* ((TYPE) & TX_CLOSURE0) != 0
IS_CLOSURE(type) == (type \div 16) % 2 = 1
\* ((TYPE) & (TX_FUNCTION0 | TX_CLOSURE0)) ? ((TYPE) & 7) : 0
ARITY(type) == IF IS_FUNCTION(type) \/ IS_CLOSURE(type) THEN type % 8 ELSE 0

(***************************************************************************)
(* Doubles and d_cx values.                                                *)
(***************************************************************************)
RECURSIVE Real(_, _)
\* the double n * 10^e, in lowest terms of ten
Real(n, e) ==
    IF n = 0 THEN [k |-> "fin", n |-> 0, e |-> 0]
    ELSE IF n % 10 = 0 THEN Real(n \div 10, e + 1)
    ELSE [k |-> "fin", n |-> n, e |-> e]

\* the NAN macro, a double
NAN == [k |-> "nan", n |-> 0, e |-> 0]

\* a d_cx with the given components
Cx(re, im) == [k |-> "cx", re |-> re, im |-> im]

\* conversion of a double to d_cx: the imaginary part is a positive zero
ToComplex(x) == Cx(x, Real(0, 0))

\* s->value*I with I = _Complex_I: (v + 0i)(0 + 1i); a NaN v makes both parts NaN
TimesI(x) == IF x.k = "nan" THEN Cx(NAN, NAN) ELSE Cx(Real(0, 0), x)

\* the call of native function fn (with context ctx for a closure) on args
Apply(fn, ctx, args) == [k |-> "app", fn |-> fn, ctx |-> ctx, args |-> args]

(***************************************************************************)
(* Characters (ctype.h in the C locale) and strtod.                        *)
(***************************************************************************)
Digits == {"0", "1", "2", "3", "4", "5", "6", "7", "8", "9"}
Upper == {"A", "B", "C", "D", "E", "F", "G", "H", "I", "J", "K", "L", "M",
          "N", "O", "P", "Q", "R", "S", "T", "U", "V", "W", "X", "Y", "Z"}
Lower == {"a", "b", "c", "d", "e", "f", "g", "h", "i", "j", "k", "l", "m",
          "n", "o", "p", "q", "r", "s", "t", "u", "v", "w", "x", "y", "z"}
isalpha(c) == c \in Upper \cup Lower
isdigit(c) == c \in Digits

\* the identifier characters in ASCII order
Ascii == <<"0", "1", "2", "3", "4", "5", "6", "7", "8", "9",
           "A", "B", "C", "D", "E", "F", "G", "H", "I", "J", "K", "L", "M",
           "N", "O", "P", "Q", "R", "S", "T", "U", "V", "W", "X", "Y", "Z",
           "_",
           "a", "b", "c", "d", "e", "f", "g", "h", "i", "j", "k", "l", "m",
           "n", "o", "p", "q", "r", "s", "t", "u", "v", "w", "x", "y", "z">>
OrdMap == [c \in {Ascii[i] : i \in 1..Len(Ascii)} |->
              CHOOSE i \in 1..Len(Ascii) : Ascii[i] = c]
\* the rank of the character at 1-based index i of the NUL-terminated str
\* (0 for the terminator)
Ord(str, i) == IF i > Len(str) THEN 0 ELSE OrdMap[str[i]]

\* the character at index i, "" for the terminating NUL
CharAt(str, i) == IF i > Len(str) THEN "" ELSE str[i]

DigitVal(c) == CHOOSE d \in 0..9 : Ascii[d + 1] = c

RECURSIVE ScanDigits(_, _, _, _)
\* consume a maximal run of digits from index i: [n: the number read after
\* acc, cnt: digits read, end: index after the run]
ScanDigits(str, i, acc, cnt) ==
    IF isdigit(CharAt(str, i))
    THEN ScanDigits(str, i + 1, acc * 10 + DigitVal(str[i]), cnt + 1)
    ELSE [n |-> acc, cnt |-> cnt, end |-> i]

\* strtod, the exponent: fp is the mantissa read, xp the exponent digits
\* read after "e" and an optional sign; with no exponent digit the
\* literal ends after the mantissa
strtod_exp(fp, xp, neg) ==
    IF xp.cnt = 0 THEN [value |-> Real(fp.n, 0 - fp.cnt), end |-> fp.end]
    ELSE [value |-> Real(fp.n, (IF neg THEN 0 - xp.n ELSE xp.n) - fp.cnt), end |-> xp.end]

\* the index of the first exponent digit after the "e" at index p
ExpDigitsAt(str, p) == IF CharAt(str, p + 1) \in {"+", "-"} THEN p + 2 ELSE p + 1

\* strtod, after the mantissa: icnt integer digits and the fraction fp
strtod_frac(str, i, icnt, fp) ==
    IF icnt + fp.cnt = 0 THEN [value |-> Real(0, 0), end |-> i]
    ELSE IF CharAt(str, fp.end) \in {"e", "E"}
    THEN strtod_exp(fp, ScanDigits(str, ExpDigitsAt(str, fp.end), 0, 0),
                    CharAt(str, fp.end + 1) = "-")
    ELSE [value |-> Real(fp.n, 0 - fp.cnt), end |-> fp.end]

\* strtod, after the integer digits ip
strtod_int(str, i, ip) ==
    strtod_frac(str, i, ip.cnt,
                IF CharAt(str, ip.end) = "."
                THEN ScanDigits(str, ip.end + 1, ip.n, 0)
                ELSE [n |-> ip.n, cnt |-> 0, end |-> ip.end])

\* strtod on a decimal literal starting at index i (the caller has seen a
\* digit or '.'): digits, optional '.' digits, optional exponent; with no
\* mantissa digit nothing is converted: the value is 0 and the end is i.
\* Hexadecimal literals (0x...) are left out: no text of the model has a "0".
strtod(str, i) == strtod_int(str, i, ScanDigits(str, i, 0, 0))

(***************************************************************************)
(* Symbol table.  A pointer to a tx_variable is <<>> when null and <<v>>   *)
(* when it points at the entry v.                                          *)
(***************************************************************************)
Builtin(name, address, type) ==
    [name |-> name, address |-> address, type |-> type, context |-> NULL]

\* the builtin table, without its terminating {0,0,0,0} entry
functions == <<
    Builtin(<<"I">>, "i", TX_FUNCTION0 + TX_FLAG_PURE),
    Builtin(<<"a","b","s">>, "_cabs", TX_FUNCTION1 + TX_FLAG_PURE),
    Builtin(<<"a","c","o","s">>, "cacos", TX_FUNCTION1 + TX_FLAG_PURE),
    Builtin(<<"a","c","o","s","h">>, "cacosh", TX_FUNCTION1 + TX_FLAG_PURE),
    Builtin(<<"a","r","g">>, "_carg", TX_FUNCTION1 + TX_FLAG_PURE),
    Builtin(<<"a","s","i","n">>, "casin", TX_FUNCTION1 + TX_FLAG_PURE),
    Builtin(<<"a","s","i","n","h">>, "casinh", TX_FUNCTION1 + TX_FLAG_PURE),
    Builtin(<<"a","t","a","n">>, "catan", TX_FUNCTION1 + TX_FLAG_PURE),
    Builtin(<<"a","t","a","n","h">>, "catanh", TX_FUNCTION1 + TX_FLAG_PURE),
    Builtin(<<"c","o","n","j">>, "conj", TX_FUNCTION1 + TX_FLAG_PURE),
    Builtin(<<"c","o","s">>, "ccos", TX_FUNCTION1 + TX_FLAG_PURE),
    Builtin(<<"c","o","s","h">>, "ccosh", TX_FUNCTION1 + TX_FLAG_PURE),
    Builtin(<<"e">>, "e", TX_FUNCTION0 + TX_FLAG_PURE),
    Builtin(<<"e","x","p">>, "cexp", TX_FUNCTION1 + TX_FLAG_PURE),
    Builtin(<<"i","m","a","g">>, "_cimag", TX_FUNCTION1 + TX_FLAG_PURE),
    Builtin(<<"i","n","f">>, "infinity", TX_FUNCTION0 + TX_FLAG_PURE),
    Builtin(<<"l","o","g">>, "clog", TX_FUNCTION1 + TX_FLAG_PURE),
    Builtin(<<"p","i">>, "pi", TX_FUNCTION0 + TX_FLAG_PURE),
    Builtin(<<"p","o","w">>, "cpow", TX_FUNCTION2 + TX_FLAG_PURE),
    Builtin(<<"r","e","a","l">>, "_creal", TX_FUNCTION1 + TX_FLAG_PURE),
    Builtin(<<"s","i","n">>, "csin", TX_FUNCTION1 + TX_FLAG_PURE),
    Builtin(<<"s","i","n","h">>, "csinh", TX_FUNCTION1 + TX_FLAG_PURE),
    Builtin(<<"s","q","r","t">>, "csqrt", TX_FUNCTION1 + TX_FLAG_PURE),
    Builtin(<<"t","a","n">>, "ctan", TX_FUNCTION1 + TX_FLAG_PURE),
    Builtin(<<"t","a","n","h">>, "ctanh", TX_FUNCTION1 + TX_FLAG_PURE) >>

RECURSIVE strncmp(_, _, _, _)
\* strncmp(a, b, len) from 1-based index i on: negative, zero or positive
strncmp(a, b, len, i) ==
    IF i > len THEN 0
    ELSE IF Ord(a, i) # Ord(b, i) THEN Ord(a, i) - Ord(b, i)
    ELSE IF Ord(a, i) = 0 THEN 0
    ELSE strncmp(a, b, len, i + 1)

\* if (!c) c = '\0' - functions[i].name[len]
builtin_tie(c, fname, len) == IF c = 0 THEN 0 - Ord(fname, len + 1) ELSE c

RECURSIVE find_builtin_loop(_, _, _, _)
\* one probe of the binary search, at 0-based index i with comparison c
find_builtin_step(name, len, imin, imax, i, c) ==
    IF c = 0 THEN <<functions[i + 1]>>
    ELSE IF c > 0 THEN find_builtin_loop(name, len, i + 1, imax)
    ELSE find_builtin_loop(name, len, imin, i - 1)

find_builtin_probe(name, len, imin, imax, i) ==
    find_builtin_step(name, len, imin, imax, i,
        builtin_tie(strncmp(name, functions[i + 1].name, len, 1),
                    functions[i + 1].name, len))

\* the binary search over functions[imin..imax] (0-based as in the code)
find_builtin_loop(name, len, imin, imax) ==
    IF ~(imax >= imin) THEN <<>>
    ELSE find_builtin_probe(name, len, imin, imax, imin + ((imax - imin) \div 2))

find_builtin(name, len) == find_builtin_loop(name, len, 0, (Len(functions) + 1) - 2)

RECURSIVE find_lookup_loop(_, _, _, _)
\* find_lookup_loop comparing only the first len characters of the binding's
\* name, without the test of its terminator
find_lookup_loop_prefix(lookup, name, len, i) ==
    IF i > Len(lookup) THEN <<>>
    ELSE IF strncmp(name, lookup[i].name, len, 1) = 0 THEN <<lookup[i]>>
    ELSE find_lookup_loop(lookup, name, len, i + 1)

\* the for loop over the caller's bindings, from the i-th on
find_lookup_loop(lookup, name, len, i) ==
    IF i > Len(lookup) THEN <<>>
    ELSE IF strncmp(name, lookup[i].name, len, 1) = 0 /\ Ord(lookup[i].name, len + 1) = 0
    THEN <<lookup[i]>>
    ELSE find_lookup_loop(lookup, name, len, i + 1)

find_lookup(lookup, name, len) ==
    IF Len(lookup) = 0 THEN <<>> ELSE find_lookup_loop(lookup, name, len, 1)

(***************************************************************************)
(* Parser state and the heap of nodes.  A state s carries the struct state *)
(* of the compile (start, next as a 1-based index, type, the union u and   *)
(* context, lookup), the heap the compile allocates from (heap[p] is the   *)
(* node at address p, live the addresses malloc'ed and not yet free'd,     *)
(* freed every address handed to free, in order, failAt the ordinal of the *)
(* malloc call that returns NULL, 0 for none, oom whether malloc has       *)
(* returned NULL), the caller's storage mem that bound addresses point     *)
(* into, and ret, the value returned by the production that produced s.    *)
(* Two counters record the work of the tokenizer: reads, the calls of      *)
(* tx_next_token, and stalls, the calls that returned a token other than   *)
(* TOK_END with the cursor where it was.                                   *)
(***************************************************************************)
\* the members of the anonymous unions of state and tx_expr
UValue(v) == [k |-> "value", v |-> v]
UBound(a) == [k |-> "bound", a |-> a]
UFunction(f) == [k |-> "function", f |-> f]

\* the arithmetic helpers, '^' -> cpow, and negate, as function pointers
add == "add"
sub == "sub"
mul == "mul"
divide == "divide"
cpow == "cpow"
negate == "negate"
comma == "comma"

NewState(expression, variables, mem, failAt) ==
    [start |-> expression, next |-> 1, type |-> TOK_NULL, u |-> UBound(NULL),
     context |-> NULL, lookup |-> variables, mem |-> mem,
     heap |-> <<>>, live |-> {}, freed |-> <<>>, failAt |-> failAt, oom |-> FALSE,
     ret |-> NULL, reads |-> 0, stalls |-> 0]

\* the node new_expr fills in: memset, memcpy of arity children, type, bound
NewNode(type, parameters, arity, slots) ==
    [type |-> type, u |-> UBound(NULL),
     parameters |-> [i \in 1..slots |->
         IF i <= arity /\ i <= Len(parameters) THEN parameters[i] ELSE NULL]]

\* malloc: the block is at address p, or NULL when this call is the one that fails
new_expr_at(s, p, node) ==
    IF p = s.failAt THEN [s EXCEPT !.ret = NULL, !.oom = TRUE]
    ELSE [s EXCEPT !.heap = Append(@, node), !.live = @ \cup {p}, !.ret = p]

new_expr(s, type, parameters) ==
    new_expr_at(s, Len(s.heap) + 1,
        NewNode(type, parameters, ARITY(type),
                ARITY(type) + (IF IS_CLOSURE(type) THEN 1 ELSE 0)))

\* how many children tx_free_parameters releases for a node of this type
FreeArity(type) ==
    IF TYPE_MASK(type) \in (TX_FUNCTION1 .. TX_FUNCTION0 + 6)
                           \cup (TX_CLOSURE1 .. TX_CLOSURE0 + 6)
    THEN TYPE_MASK(type) % 8 ELSE 0

\* free(n)
Release(s, n) == [s EXCEPT !.live = @ \ {n}, !.freed = Append(@, n)]

RECURSIVE tx_free(_, _)
RECURSIVE free_down(_, _, _)
\* the fall-through switch: parameters[i-1], ..., parameters[0]
free_down(s, n, i) ==
    IF i = 0 THEN s ELSE free_down(tx_free(s, s.heap[n].parameters[i]), n, i - 1)

\* tx_free_parameters releasing parameters[0] only
tx_free_parameters_first(s, n) ==
    IF n = NULL THEN s
    ELSE free_down(s, n, IF FreeArity(s.heap[n].type) > 0 THEN 1 ELSE 0)

tx_free_parameters(s, n) ==
    IF n = NULL THEN s ELSE free_down(s, n, FreeArity(s.heap[n].type))

tx_free(s, n) == IF n = NULL THEN s ELSE Release(tx_free_parameters(s, n), n)

(***************************************************************************)
(* Tokenizer.                                                              *)
(***************************************************************************)
RECURSIVE ident_end(_, _)
\* while (isalpha || isdigit || '_') s->next++
ident_end(str, i) ==
    IF isalpha(CharAt(str, i)) \/ isdigit(CharAt(str, i)) \/ CharAt(str, i) = "_"
    THEN ident_end(str, i + 1) ELSE i

\* var = find_lookup(...); if (!var) var = find_builtin(...)
find_var(found, name, len) == IF found # <<>> THEN found ELSE find_builtin(name, len)

\* the switch on the kind of the symbol found; s has the cursor after the lexeme
ident_kind(s, var) ==
    IF TYPE_MASK(var.type) = TX_VARIABLE
    THEN [s EXCEPT !.type = TOK_VARIABLE, !.u = UBound(var.address)]
    ELSE IF TYPE_MASK(var.type) \in TX_CLOSURE0 .. TX_CLOSURE0 + 6
    THEN [s EXCEPT !.context = var.context, !.type = var.type,
                   !.u = UFunction(var.address)]
    ELSE IF TYPE_MASK(var.type) \in TX_FUNCTION0 .. TX_FUNCTION0 + 6
    THEN [s EXCEPT !.type = var.type, !.u = UFunction(var.address)]
    ELSE s

ident_found(s, var) ==
    IF var = <<>> THEN [s EXCEPT !.type = TOK_ERROR] ELSE ident_kind(s, var[1])

ident_lexeme(s, stop, name, len) ==
    ident_found([s EXCEPT !.next = stop],
                find_var(find_lookup(s.lookup, name, len), name, len))

\* the identifier branch: the lexeme runs from s.next to before stop
ident_token(s, stop) == ident_lexeme(s, stop, SubSeq(s.start, s.next, stop - 1), stop - s.next)

\* op_token with the cursor left before a ')'
op_token_stuck(c, s1) ==
    CASE c = "+" -> [s1 EXCEPT !.type = TOK_INFIX, !.u = UFunction(add)]
      [] c = "-" -> [s1 EXCEPT !.type = TOK_INFIX, !.u = UFunction(sub)]
      [] c = "*" -> [s1 EXCEPT !.type = TOK_INFIX, !.u = UFunction(mul)]
      [] c = "/" -> [s1 EXCEPT !.type = TOK_INFIX, !.u = UFunction(divide)]
      [] c = "^" -> [s1 EXCEPT !.type = TOK_INFIX, !.u = UFunction(cpow)]
      [] c = "(" -> [s1 EXCEPT !.type = TOK_OPEN]
      [] c = ")" -> [s1 EXCEPT !.type = TOK_CLOSE, !.next = @ - 1]
      [] c = "," -> [s1 EXCEPT !.type = TOK_SEP]
      [] c \in {" ", "\t", "\n", "\r"} -> s1
      [] OTHER -> [s1 EXCEPT !.type = TOK_ERROR]

\* the operator branch: switch (s->next++[0]), s1 the state after next++
op_token(c, s1) ==
    CASE c = "+" -> [s1 EXCEPT !.type = TOK_INFIX, !.u = UFunction(add)]
      [] c = "-" -> [s1 EXCEPT !.type = TOK_INFIX, !.u = UFunction(sub)]
      [] c = "*" -> [s1 EXCEPT !.type = TOK_INFIX, !.u = UFunction(mul)]
      [] c = "/" -> [s1 EXCEPT !.type = TOK_INFIX, !.u = UFunction(divide)]
      [] c = "^" -> [s1 EXCEPT !.type = TOK_INFIX, !.u = UFunction(cpow)]
      [] c = "(" -> [s1 EXCEPT !.type = TOK_OPEN]
      [] c = ")" -> [s1 EXCEPT !.type = TOK_CLOSE]
      [] c = "," -> [s1 EXCEPT !.type = TOK_SEP]
      [] c \in {" ", "\t", "\n", "\r"} -> s1
      [] OTHER -> [s1 EXCEPT !.type = TOK_ERROR]

\* the number branch: n is what strtod returned
number_token(s, n) ==
    IF CharAt(s.start, n.end) = "I"
    THEN [s EXCEPT !.u = UValue(n.value), !.type = TOK_NUMBER_I, !.next = n.end + 1]
    ELSE [s EXCEPT !.u = UValue(n.value), !.type = TOK_NUMBER_R, !.next = n.end]

\* one turn of the do-while on the character c at the cursor
token_step(s, c) ==
    IF isdigit(c) \/ c = "." THEN number_token(s, strtod(s.start, s.next))
    ELSE IF isalpha(c) THEN ident_token(s, ident_end(s.start, s.next))
    ELSE op_token(c, [s EXCEPT !.next = @ + 1])

RECURSIVE token_loop(_)
\* while (s->type == TOK_NULL)
token_while(s) == IF s.type = TOK_NULL THEN token_loop(s) ELSE s

\* the do { ... } while of tx_next_token
token_loop(s) ==
    IF s.next > Len(s.start) THEN [s EXCEPT !.type = TOK_END]
    ELSE token_while(token_step(s, s.start[s.next]))

\* the call has returned in the state s, with the cursor at from when it began
token_read(s, from) ==
    [s EXCEPT !.reads = @ + 1,
              !.stalls = IF s.type # TOK_END /\ s.next = from THEN @ + 1 ELSE @]

tx_next_token(s) == token_read(token_loop([s EXCEPT !.type = TOK_NULL]), s.next)

(***************************************************************************)
(* Parser.  Each production takes the state and returns it with ret set.   *)
(***************************************************************************)
RECURSIVE base(_)
RECURSIVE power(_)
RECURSIVE expr(_)
RECURSIVE list(_)

SetU(s, n, u) == [s EXCEPT !.heap[n].u = u]
SetParam(s, n, i, v) == [s EXCEPT !.heap[n].parameters[i + 1] = v]
Ret(s, n) == [s EXCEPT !.ret = n]

\* ret->function = s->function; if (IS_CLOSURE) ret->parameters[arity] = s->context
SetCall(s, n) ==
    IF IS_CLOSURE(s.type)
    THEN SetParam(SetU(s, n, UFunction(s.u.f)), n, ARITY(s.type), s.context)
    ELSE SetU(s, n, UFunction(s.u.f))

\* a constant or variable: a is the state after new_expr, u the payload
base_leaf(a, u) == IF a.ret = NULL THEN a ELSE tx_next_token(SetU(a, a.ret, u))

\* if (s->type != TOK_CLOSE) s->type = TOK_ERROR; else tx_next_token(s);
base_close(s) ==
    IF s.type # TOK_CLOSE THEN [s EXCEPT !.type = TOK_ERROR] ELSE tx_next_token(s)

\* a call of arity 0: s is the state after the name
base_call0_open(s) == IF s.type = TOK_OPEN THEN base_close(tx_next_token(s)) ELSE s

base_call0(a) ==
    IF a.ret = NULL THEN a ELSE base_call0_open(tx_next_token(SetCall(a, a.ret)))

\* a call of arity 1: s is the state after power(), ret the call's node
base_call1_arg(s, ret) ==
    IF s.ret = NULL THEN Ret(tx_free(SetParam(s, ret, 0, NULL), ret), NULL)
    ELSE Ret(SetParam(s, ret, 0, s.ret), ret)

base_call1(a) ==
    IF a.ret = NULL THEN a
    ELSE base_call1_arg(power(tx_next_token(SetCall(a, a.ret))), a.ret)

RECURSIVE base_args(_, _, _, _)
\* one turn of the for loop: s is the state after expr()
base_arg(s, ret, i, arity) ==
    IF s.ret = NULL
    THEN [s |-> Ret(tx_free(SetParam(s, ret, i, NULL), ret), NULL), i |-> i]
    ELSE IF s.type # TOK_SEP THEN [s |-> Ret(SetParam(s, ret, i, s.ret), ret), i |-> i]
    ELSE base_args(Ret(SetParam(s, ret, i, s.ret), ret), ret, i + 1, arity)

\* the for loop over the arguments of a call of arity >= 2: [s, i] when it
\* ends; s.ret = NULL when an argument came back NULL (ret is then freed)
base_args(s, ret, i, arity) ==
    IF ~(i < arity) THEN [s |-> s, i |-> i]
    ELSE base_arg(expr(tx_next_token(s)), ret, i, arity)

\* base_callN_close testing only the closing parenthesis, not the count
base_callN_close_lax(l, arity) ==
    IF l.s.ret = NULL THEN l.s
    ELSE IF l.s.type # TOK_CLOSE THEN [l.s EXCEPT !.type = TOK_ERROR]
    ELSE tx_next_token(l.s)

\* after the loop l = [s, i]
base_callN_close(l, arity) ==
    IF l.s.ret = NULL THEN l.s
    ELSE IF l.s.type # TOK_CLOSE \/ l.i # arity - 1 THEN [l.s EXCEPT !.type = TOK_ERROR]
    ELSE tx_next_token(l.s)

\* s is the state after the name
base_callN_open(s, ret, arity) ==
    IF s.type # TOK_OPEN THEN [s EXCEPT !.type = TOK_ERROR]
    ELSE base_callN_close(base_args(s, ret, 0, arity), arity)

base_callN(a, arity) ==
    IF a.ret = NULL THEN a
    ELSE base_callN_open(tx_next_token(SetCall(a, a.ret)), a.ret, arity)

\* '(' list ')': s is the state after list()
base_paren(s) == IF s.ret = NULL THEN s ELSE base_close(s)

\* base_default leaving the token type as it is
base_default_silent(a) ==
    IF a.ret = NULL THEN a
    ELSE SetU(a, a.ret, UValue(ToComplex(NAN)))

\* an unexpected token: a placeholder node of type 0 holding NAN
base_default(a) ==
    IF a.ret = NULL THEN a
    ELSE SetU([a EXCEPT !.type = TOK_ERROR], a.ret, UValue(ToComplex(NAN)))

\* switch (TYPE_MASK(s->type))
base_switch(s, m) ==
    IF m = TOK_NUMBER_R
    THEN base_leaf(new_expr(s, TX_CONSTANT, <<>>), UValue(ToComplex(s.u.v)))
    ELSE IF m = TOK_NUMBER_I
    THEN base_leaf(new_expr(s, TX_CONSTANT, <<>>), UValue(TimesI(s.u.v)))
    ELSE IF m = TOK_VARIABLE
    THEN base_leaf(new_expr(s, TX_VARIABLE, <<>>), UBound(s.u.a))
    ELSE IF m \in {TX_FUNCTION0, TX_CLOSURE0}
    THEN base_call0(new_expr(s, s.type, <<>>))
    ELSE IF m \in {TX_FUNCTION1, TX_CLOSURE1}
    THEN base_call1(new_expr(s, s.type, <<>>))
    ELSE IF m \in (TX_FUNCTION2 .. TX_FUNCTION0 + 6) \cup (TX_CLOSURE2 .. TX_CLOSURE0 + 6)
    THEN base_callN(new_expr(s, s.type, <<>>), ARITY(s.type))
    ELSE IF m = TOK_OPEN
    THEN base_paren(list(tx_next_token(s)))
    ELSE base_default(new_expr(s, 0, <<>>))

base(s) == base_switch(s, TYPE_MASK(s.type))

RECURSIVE power_signs(_, _)
\* power_signs setting the sign on each '-' instead of flipping it
power_signs_last(s, sign) ==
    IF s.type = TOK_INFIX /\ (s.u.f = add \/ s.u.f = sub)
    THEN power_signs(tx_next_token(s), IF s.u.f = sub THEN 0 - 1 ELSE sign)
    ELSE [s |-> s, sign |-> sign]

\* the while loop over leading signs: [s, sign]
power_signs(s, sign) ==
    IF s.type = TOK_INFIX /\ (s.u.f = add \/ s.u.f = sub)
    THEN power_signs(tx_next_token(s), IF s.u.f = sub THEN 0 - sign ELSE sign)
    ELSE [s |-> s, sign |-> sign]

\* ret = NEW_EXPR(TX_FUNCTION1 | TX_FLAG_PURE, b): r is the state after it
power_negate(r, b) ==
    IF r.ret = NULL THEN Ret(tx_free(r, b), NULL)
    ELSE SetU(r, r.ret, UFunction(negate))

\* b is the state after base()
power_base(b, sign) ==
    IF sign = 1 THEN b
    ELSE IF b.ret = NULL THEN b
    ELSE power_negate(new_expr(b, TX_FUNCTION1 + TX_FLAG_PURE, <<b.ret>>), b.ret)

power_signed(w) == power_base(base(w.s), w.sign)

power(s) == power_signed(power_signs(s, 1))

\* binary_new releasing the right operand only when the allocation fails
binary_new_leak(r, p, prev, t) ==
    IF r.ret = NULL THEN Ret(tx_free(r, p), NULL)
    ELSE SetU(r, r.ret, UFunction(t))

\* ret = NEW_EXPR(TX_FUNCTION2 | TX_FLAG_PURE, ret, p): r is the state after it
binary_new(r, p, prev, t) ==
    IF r.ret = NULL THEN Ret(tx_free(tx_free(r, p), prev), NULL)
    ELSE SetU(r, r.ret, UFunction(t))

\* one turn of a binary-operator loop: the operator t has been read and the
\* right operand parsed (q is the state after it); build the node over (ret, q.ret)
binary_node(q, ret, t) ==
    IF q.ret = NULL THEN Ret(tx_free(q, ret), NULL)
    ELSE binary_new(new_expr(q, TX_FUNCTION2 + TX_FLAG_PURE, <<ret, q.ret>>), q.ret, ret, t)

RECURSIVE factor_loop(_)
RECURSIVE factor(_)
\* CHECK_NULL, then the while loop
factor_more(s) == IF s.ret = NULL THEN s ELSE factor_loop(s)

\* factor_loop parsing the right operand of '^' with factor(): right-associative
factor_loop_right(s) ==
    IF s.type = TOK_INFIX /\ s.u.f = cpow
    THEN binary_node(factor(tx_next_token(s)), s.ret, s.u.f)
    ELSE s

factor_loop(s) ==
    IF s.type = TOK_INFIX /\ s.u.f = cpow
    THEN factor_more(binary_node(power(tx_next_token(s)), s.ret, s.u.f))
    ELSE s

factor(s) == factor_more(power(s))

RECURSIVE term_loop(_)
term_more(s) == IF s.ret = NULL THEN s ELSE term_loop(s)

term_loop(s) ==
    IF s.type = TOK_INFIX /\ (s.u.f = mul \/ s.u.f = divide)
    THEN term_more(binary_node(factor(tx_next_token(s)), s.ret, s.u.f))
    ELSE s

term(s) == term_more(factor(s))

RECURSIVE expr_loop(_)
expr_more(s) == IF s.ret = NULL THEN s ELSE expr_loop(s)

expr_loop(s) ==
    IF s.type = TOK_INFIX /\ (s.u.f = add \/ s.u.f = sub)
    THEN expr_more(binary_node(term(tx_next_token(s)), s.ret, s.u.f))
    ELSE s

expr(s) == expr_more(term(s))

RECURSIVE list_loop(_)
list_more(s) == IF s.ret = NULL THEN s ELSE list_loop(s)

list_loop(s) ==
    IF s.type = TOK_SEP
    THEN list_more(binary_node(expr(tx_next_token(s)), s.ret, comma))
    ELSE s

list(s) == list_more(expr(s))

(***************************************************************************)
(* Evaluator.  C leaves the order in which the arguments M(0), M(1), ...   *)
(* of one call are evaluated unspecified (they are indeterminately         *)
(* sequenced), so tx_eval is the set of its possible runs: the value       *)
(* returned and the trace of what the run did, in order: the dereference   *)
(* of a bound address ("read") and the call of a node's native function    *)
(* ("call"), each tagged with the node.                                    *)
(***************************************************************************)
Event(ev, n) == [ev |-> ev, node |-> n]

\* the orders in which k arguments can be evaluated, as sequences of 1..k
ArgOrders(k) == IF k = 0 THEN {<<>>} ELSE Permutations(1..k)

RECURSIVE TraceIn(_, _, _)
\* the traces of the runs c[1..k] of the children, concatenated in order o
TraceIn(c, o, j) == IF j > Len(o) THEN <<>> ELSE c[o[j]].trace \o TraceIn(c, o, j + 1)

RECURSIVE tx_eval(_, _, _)
RECURSIVE ChildRuns(_, _, _, _)
\* one run for each of the first k children of n, in every combination
ChildRuns(heap, mem, n, k) ==
    IF k = 0 THEN {<<>>}
    ELSE {Append(c, r) : c \in ChildRuns(heap, mem, n, k - 1),
                         r \in tx_eval(heap, mem, heap[n].parameters[k])}

\* the runs of a Function or Closure node of arity k with context ctx
CallRuns(heap, mem, n, k, ctx) ==
    {[value |-> Apply(heap[n].u.f, ctx, [i \in 1..k |-> c[i].value]),
      trace |-> TraceIn(c, o, 1) \o <<Event("call", n)>>] :
        c \in ChildRuns(heap, mem, n, k), o \in ArgOrders(k)}

\* switch (TYPE_MASK(n->type)) with arity k
eval_switch(heap, mem, n, m, k) ==
    IF m = TX_CONSTANT THEN {[value |-> heap[n].u.v, trace |-> <<>>]}
    ELSE IF m = TX_VARIABLE
    THEN {[value |-> mem[heap[n].u.a], trace |-> <<Event("read", n)>>]}
    ELSE IF m \in TX_FUNCTION0 .. TX_FUNCTION0 + 6
    THEN CallRuns(heap, mem, n, k, NULL)
    ELSE IF m \in TX_CLOSURE0 .. TX_CLOSURE0 + 6
    THEN CallRuns(heap, mem, n, k, heap[n].parameters[k + 1])
    ELSE {[value |-> ToComplex(NAN), trace |-> <<>>]}

tx_eval(heap, mem, n) ==
    IF n = NULL THEN {[value |-> ToComplex(NAN), trace |-> <<>>]}
    ELSE eval_switch(heap, mem, n, TYPE_MASK(heap[n].type), ARITY(heap[n].type))

\* the value tx_eval returns: the same in every run
EvalValue(heap, mem, n) == (CHOOSE r \in tx_eval(heap, mem, n) : TRUE).value

(***************************************************************************)
(* Optimizer and the entry points.                                         *)
(***************************************************************************)
RECURSIVE optimize(_, _)
RECURSIVE optimize_children(_, _, _, _, _)
\* one turn of the for loop: s is the state after optimize(n->parameters[i])
optimize_child(s, n, i, arity, known) ==
    optimize_children(s, n, i + 1, arity,
        IF s.heap[s.heap[n].parameters[i + 1]].type # TX_CONSTANT THEN 0 ELSE known)

\* the for loop of optimize: [s, known]
optimize_children(s, n, i, arity, known) ==
    IF ~(i < arity) THEN [s |-> s, known |-> known]
    ELSE optimize_child(optimize(s, s.heap[n].parameters[i + 1]), n, i, arity, known)

\* n->type = TX_CONSTANT; n->value = value; s is the state after tx_free_parameters
optimize_set(s, n, value) ==
    [s EXCEPT !.heap[n].type = TX_CONSTANT, !.heap[n].u = UValue(value)]

\* if (known) { ... }: r = [s, known] after the loop
optimize_known(r, n) ==
    IF r.known = 1
    THEN optimize_set(tx_free_parameters(r.s, n), n, EvalValue(r.s.heap, r.s.mem, n))
    ELSE r.s

\* optimize_type folding a variable to the value its storage holds at compile time
optimize_type_cached(s, n, type) ==
    IF type = TX_CONSTANT THEN s
    ELSE IF type = TX_VARIABLE THEN optimize_set(s, n, s.mem[s.heap[n].u.a])
    ELSE IF IS_PURE(type)
    THEN optimize_known(optimize_children(s, n, 0, ARITY(type), 1), n)
    ELSE s

\* optimize_type without the test of the pure flag
optimize_type_any(s, n, type) ==
    IF type = TX_CONSTANT THEN s
    ELSE IF type = TX_VARIABLE THEN s
    ELSE optimize_known(optimize_children(s, n, 0, ARITY(type), 1), n)

optimize_type(s, n, type) ==
    IF type = TX_CONSTANT THEN s
    ELSE IF type = TX_VARIABLE THEN s
    ELSE IF IS_PURE(type)
    THEN optimize_known(optimize_children(s, n, 0, ARITY(type), 1), n)
    ELSE s

optimize(s, n) == optimize_type(s, n, s.heap[n].type)

\* the state after list(), before the end-of-input check
Parse(expression, variables, mem, failAt) ==
    list(tx_next_token(NewState(expression, variables, mem, failAt)))

\* compile_result without the step from offset 0 to 1
compile_result_zero(s) ==
    IF s.ret = NULL THEN [root |-> NULL, error |-> 0 - 1, s |-> s]
    ELSE IF s.type # TOK_END
    THEN [root |-> NULL, error |-> s.next - 1, s |-> tx_free(s, s.ret)]
    ELSE [root |-> s.ret, error |-> 0, s |-> optimize(s, s.ret)]

\* what tx_compile returns for the state s after list(): [root: the handle,
\* error: what *error is set to, s: the final state]
compile_result(s) ==
    IF s.ret = NULL THEN [root |-> NULL, error |-> 0 - 1, s |-> s]
    ELSE IF s.type # TOK_END
    THEN [root |-> NULL,
          error |-> IF s.next - 1 = 0 THEN 1 ELSE s.next - 1,
          s |-> tx_free(s, s.ret)]
    ELSE [root |-> s.ret, error |-> 0, s |-> optimize(s, s.ret)]

tx_compile(expression, variables, mem, failAt) ==
    compile_result(Parse(expression, variables, mem, failAt))

\* interp_result returning a zero instead of NAN when the compile failed
interp_result_zero(c, mem) ==
    IF c.root # NULL
    THEN [ret |-> EvalValue(c.s.heap, mem, c.root), error |-> c.error,
          s |-> tx_free(c.s, c.root)]
    ELSE [ret |-> ToComplex(Real(0, 0)), error |-> c.error, s |-> c.s]

\* what tx_interp returns for the result c of tx_compile: [ret: the value
\* returned, error, s: the final state]
interp_result(c, mem) ==
    IF c.root # NULL
    THEN [ret |-> EvalValue(c.s.heap, mem, c.root), error |-> c.error,
          s |-> tx_free(c.s, c.root)]
    ELSE [ret |-> ToComplex(NAN), error |-> c.error, s |-> c.s]

tx_interp(expression, mem, failAt) ==
    interp_result(tx_compile(expression, <<>>, mem, failAt), mem)

(***************************************************************************)
(* The caller.  It owns the storage that bindings point into (mem, by      *)
(* address), compiles one expression with tx_compile or runs it with       *)
(* tx_interp, and while it holds the handle evaluates it, writes to the    *)
(* storage and finally frees it.                                           *)
(***************************************************************************)
VARIABLES expression, lookup, mem, heap, live, freed, oom, root, error, pc,
          result, trace, work

vars == <<expression, lookup, mem, heap, live, freed, oom, root, error, pc,
          result, trace, work>>

\* what the last compile did: the calls of tx_next_token, those that left
\* the cursor where it was, and where the cursor ended
Work(s) == [reads |-> s.reads, stalls |-> s.stalls, next |-> s.next]

Binding(name, address, type, context) ==
    [name |-> name, address |-> address, type |-> type, context |-> context]

\* variables x, y; impure functions f (1 argument), g (2), t (3); an impure
\* closure c (0 arguments); a pure closure h (1 argument)
Std == << Binding(<<"x">>, 1, TX_VARIABLE, NULL),
          Binding(<<"y">>, 2, TX_VARIABLE, NULL),
          Binding(<<"f">>, "uf", TX_FUNCTION1, NULL),
          Binding(<<"g">>, "ug", TX_FUNCTION2, NULL),
          Binding(<<"t">>, "ut", TX_FUNCTION3, NULL),
          Binding(<<"c">>, "uc", TX_CLOSURE0, 101),
          Binding(<<"h">>, "uh", TX_CLOSURE1 + TX_FLAG_PURE, 102) >>

\* bindings that shadow the builtin pi, and one another
ShadowA == << Binding(<<"p","i">>, 1, TX_VARIABLE, NULL),
              Binding(<<"p","i">>, 2, TX_VARIABLE, NULL) >>
ShadowB == << Binding(<<"p">>, 2, TX_VARIABLE, NULL),
              Binding(<<"p","i","x">>, 2, TX_VARIABLE, NULL),
              Binding(<<"p","i">>, 1, TX_VARIABLE, NULL),
              Binding(<<"s","i","n">>, "uf", TX_FUNCTION1, NULL) >>

MaxLen == 3
MaxSigns == 3
MaxArgs == 4

Strings(A, n) == UNION {[1..k -> A] : k \in 0..n}

RECURSIVE Join(_)
\* the concatenation of a sequence of texts
Join(ts) == IF ts = <<>> THEN <<>> ELSE Head(ts) \o Join(Tail(ts))

Alphabet == {"2", ".", "I", "x", "f", "g", "+", "-", "^", "(", ")", ",", " ", "$"}
Short == Strings(Alphabet, MaxLen)

Atoms == {<<"2">>, <<"3">>, <<"x">>}
BinOps == {"+", "-", "*", "/", "^", ","}
Chains == {a \o <<o1>> \o b \o <<o2>> \o c :
              a \in Atoms, b \in Atoms, c \in Atoms, o1 \in BinOps, o2 \in BinOps}

SignTails == {<<>>, <<"^", "2">>}
Signs == {w \o a \o r : w \in Strings({"+", "-"}, MaxSigns), a \in Atoms, r \in SignTails}

\* a complete expression, white space, one more token, and more input
TrailHeads == {<<"2">>, <<"2", "+", "2">>, <<"(", "x", ")">>, <<"f", " ", "x">>}
TrailGaps == {<<>>, <<" ">>, <<" ", " ">>}
TrailTokens == {<<"3">>, <<"3", "3">>, <<"2", ".", "5">>, <<"3", "I">>, <<"x">>,
                <<"p", "i">>, <<"f">>, <<"(">>, <<")">>, <<"$">>, <<"q", "q">>}
TrailRests == {<<>>, <<" ", "2">>, <<")">>, <<"+", "2">>}
Trailing == {h \o g \o w \o r :
                h \in TrailHeads, g \in TrailGaps, w \in TrailTokens, r \in TrailRests}

\* a call of arity 2 or 3, with or without its parentheses, on 0..MaxArgs arguments
CallLeads == {<<>>, <<"2", "+">>}
CallNames == {<<"g">>, <<"t">>, <<"p", "o", "w">>}
CallOpens == {<<"(">>, <<" ">>, <<>>}
CallCloses == {<<")">>, <<>>}
CallArgs == {<<"2">>, <<"x">>}
RECURSIVE ArgLists(_)
\* the texts of k comma-separated arguments
ArgLists(k) ==
    IF k = 0 THEN {<<>>}
    ELSE IF k = 1 THEN CallArgs
    ELSE {l \o <<",">> \o a : l \in ArgLists(k - 1), a \in CallArgs}
Calls == {p \o n \o o \o l \o c :
             p \in CallLeads, n \in CallNames, o \in CallOpens,
             l \in UNION {ArgLists(k) : k \in 0..MaxArgs}, c \in CallCloses}

\* identifiers: the builtin names, the binding names, and names one
\* character shorter or longer
IdentTails == {<<>>, <<"x">>, <<"_">>, <<"2">>, <<"I">>}
Known == {functions[i].name : i \in 1..Len(functions)}
             \cup {ShadowB[i].name : i \in 1..Len(ShadowB)}
Idents == {n \o r : n \in Known, r \in IdentTails}
              \cup {SubSeq(n, 1, Len(n) - 1) : n \in {m \in Known : Len(m) > 1}}

\* closures: k (1 argument) and m (2) impure, h (1) pure, c (0) impure,
\* each with its context
Closures == << Binding(<<"x">>, 1, TX_VARIABLE, NULL),
               Binding(<<"k">>, "uk", TX_CLOSURE1, 103),
               Binding(<<"m">>, "um", TX_CLOSURE2, 104),
               Binding(<<"h">>, "uh", TX_CLOSURE1 + TX_FLAG_PURE, 102),
               Binding(<<"c">>, "uc", TX_CLOSURE0, 101) >>

\* calls of the closures on constant and on variable arguments
ClosureLeads == {<<>>, <<"2", "+">>, <<"h", " ">>, <<"k", " ">>}
ClosureArgs == {<<"2">>, <<"x">>, <<"2", "+", "3">>, <<"c">>}
ClosureCalls ==
    {p \o n \o <<"(">> \o a \o <<")">> :
        p \in ClosureLeads, n \in {<<"k">>, <<"h">>}, a \in ClosureArgs}
    \cup {p \o n \o a : p \in ClosureLeads, n \in {<<"k">>, <<"h">>},
                         a \in {<<" ", "2">>, <<"-", "2">>, <<" ", "x">>}}
    \cup {p \o <<"m", "(">> \o a \o <<",">> \o b \o <<")">> :
             p \in ClosureLeads, a \in ClosureArgs, b \in ClosureArgs}
    \cup {p \o r : p \in ClosureLeads,
                    r \in {<<"c">>, <<"c", "(", ")">>, <<"c", "(">>, <<"c", "+", "2">>,
                           <<"c", "(", "2", ")">>, <<"m", "(", "2", ")">>}}

Inputs == {[text |-> x, lookup |-> Std] :
              x \in Short \cup Chains \cup Signs \cup Trailing \cup Calls}
          \cup {[text |-> x, lookup |-> l] : x \in Idents, l \in {<<>>, ShadowA, ShadowB}}
          \cup {[text |-> x, lookup |-> Closures] : x \in ClosureCalls}

InterpTexts == Signs \cup TrailHeads \cup CallNames \cup Strings({"2", "I", "*", "$"}, MaxLen)

\* what the caller's storage can hold
MemValues == {ToComplex(Real(5, 0)), Cx(Real(0, 0), Real(7, 0))}
MemInit == [a \in 1..2 |-> ToComplex(Real(5, 0))]

Init ==
    /\ expression = <<>>
    /\ lookup = <<>>
    /\ mem = MemInit
    /\ heap = <<>>
    /\ live = {}
    /\ freed = <<>>
    /\ oom = FALSE
    /\ root = NULL
    /\ error \in {0, 99}
    /\ pc = "idle"
    /\ result = ToComplex(Real(0, 0))
    /\ trace = <<>>
    /\ work = [reads |-> 0, stalls |-> 0, next |-> 1]

\* root = tx_compile(expression, variables, var_count, &error), where the
\* failAt-th call of malloc, if there is one, fails
Compile ==
    /\ pc = "idle"
    /\ \E in \in Inputs : \E failAt \in 0..(Len(in.text) + 1) :
         \E c \in {tx_compile(in.text, in.lookup, mem, failAt)} :
             /\ failAt = 0 \/ c.s.oom
             /\ expression' = in.text
             /\ lookup' = in.lookup
             /\ heap' = c.s.heap
             /\ live' = c.s.live
             /\ freed' = c.s.freed
             /\ oom' = c.s.oom
             /\ root' = c.root
             /\ error' = c.error
             /\ work' = Work(c.s)
             /\ pc' = IF c.root = NULL THEN "failed" ELSE "compiled"
    /\ UNCHANGED <<mem, result, trace>>

\* result = tx_interp(expression, &error)
Interp ==
    /\ pc = "idle"
    /\ \E text \in InterpTexts : \E failAt \in 0..(Len(text) + 1) :
         \E c \in {tx_interp(text, mem, failAt)} :
             /\ failAt = 0 \/ c.s.oom
             /\ expression' = text
             /\ heap' = c.s.heap
             /\ live' = c.s.live
             /\ freed' = c.s.freed
             /\ oom' = c.s.oom
             /\ error' = c.error
             /\ work' = Work(c.s)
             /\ result' = c.ret
    /\ pc' = "interpreted"
    /\ UNCHANGED <<lookup, mem, root, trace>>

\* result = tx_eval(root), on a handle or on NULL
Eval ==
    /\ pc \in {"compiled", "evaluated", "failed", "released"}
    /\ \E r \in tx_eval(heap, mem, root) :
         /\ result' = r.value
         /\ trace' = r.trace
    /\ pc' = "evaluated"
    /\ UNCHANGED <<expression, lookup, mem, heap, live, freed, oom, root, error, work>>

\* the caller stores v at a bound address while it holds the tree
Write ==
    /\ pc \in {"compiled", "evaluated"}
    /\ root # NULL
    /\ \E a \in DOMAIN mem : \E v \in MemValues :
         /\ mem[a] # v
         /\ mem' = [mem EXCEPT ![a] = v]
    /\ pc' = "compiled"
    /\ UNCHANGED <<expression, lookup, heap, live, freed, oom, root, error, result, trace,
                   work>>

\* tx_free(root), on a handle or on NULL; the caller then drops the handle
Free ==
    /\ pc \in {"compiled", "evaluated", "failed"}
    /\ \E s \in {tx_free([heap |-> heap, live |-> live, freed |-> freed], root)} :
           /\ live' = s.live
           /\ freed' = s.freed
    /\ root' = NULL
    /\ pc' = "released"
    /\ UNCHANGED <<expression, lookup, mem, heap, oom, error, result, trace, work>>

Next == Compile \/ Interp \/ Eval \/ Write \/ Free

Spec == Init /\ [][Next]_vars

(***************************************************************************)
(* Reference notions the properties are stated with.                       *)
(***************************************************************************)
\* the value of the atom a of a family text: the literal, or what x is bound to
AtomValue(a) ==
    IF a = <<"x">> THEN mem[1] ELSE ToComplex(Real(DigitVal(a[1]), 0))

\* the native function an infix operator stands for
InfixFn(o) ==
    CASE o = "+" -> add [] o = "-" -> sub [] o = "*" -> mul
      [] o = "/" -> divide [] o = "^" -> cpow [] o = "," -> comma

\* the precedence level of an infix operator
Level(o) ==
    CASE o = "," -> 0 [] o \in {"+", "-"} -> 1 [] o \in {"*", "/"} -> 2 [] o = "^" -> 3

RECURSIVE IntPow(_, _)
IntPow(b, n) == IF n = 0 THEN 1 ELSE b * IntPow(b, n - 1)

RECURSIVE Denote(_)
\* the integer a value stands for, when it is built from integer literals
\* with add, sub, mul, negate and cpow to a natural power
Denote(v) ==
    IF v.k = "cx" THEN v.re.n * IntPow(10, v.re.e)
    ELSE CASE v.fn = add -> Denote(v.args[1]) + Denote(v.args[2])
           [] v.fn = sub -> Denote(v.args[1]) - Denote(v.args[2])
           [] v.fn = mul -> Denote(v.args[1]) * Denote(v.args[2])
           [] v.fn = negate -> 0 - Denote(v.args[1])
           [] v.fn = cpow -> IntPow(Denote(v.args[1]), Denote(v.args[2]))

\* the compile has returned and no allocation failed
Returned == pc \in {"compiled", "failed"} /\ ~oom

\* the value the handle evaluates to now
Value == EvalValue(heap, mem, root)

(***************************************************************************)
(* C1.  Each tx_eval returns the value of the expression under the storage *)
(* contents at the moment of the call: after any writes, the result of an  *)
(* evaluation of the handle is the value of the tree as parsed, before     *)
(* optimize, under the storage as it is now.                               *)
(***************************************************************************)
C1_LiveBinding ==
    (pc = "evaluated" /\ root # NULL) =>
        \E p \in {Parse(expression, lookup, mem, 0)} :
            result = EvalValue(p.heap, mem, p.ret)

\* an evaluation of a tree with a variable, after the storage was written
C1_Witness ==
    /\ pc = "evaluated"
    /\ root # NULL
    /\ mem[1] # MemInit[1]
    /\ \E n \in live : heap[n].type = TX_VARIABLE /\ heap[n].u.a = 1
    /\ expression = <<"x", "+", "2">>

(***************************************************************************)
(* C2.  When a node allocation fails during tx_compile the compile returns *)
(* no handle, every node built so far has been released, and the error     *)
(* reported is -1, a value no other outcome reports (a successful compile  *)
(* reports 0).                                                             *)
(***************************************************************************)
C2_AllocationFailure ==
    /\ oom => (root = NULL /\ live = {} /\ error = 0 - 1)
    /\ error = 0 - 1 => oom
    /\ pc = "compiled" => error = 0

\* C2 as claimed: the allocation failure is reported as offset 0
C2_Original == oom => (root = NULL /\ live = {} /\ error = 0)

\* the third allocation of "x+2" failed after two nodes were built
C2_Witness ==
    /\ pc = "failed"
    /\ oom
    /\ Len(heap) = 2
    /\ Len(freed) = 2
    /\ live = {}
    /\ error = 0 - 1

(***************************************************************************)
(* C3.  For an input made of a complete expression followed by a token     *)
(* other than end-of-input, tx_compile returns no handle and reports the   *)
(* offset just past that first unconsumed token (the cursor after reading  *)
(* it); every syntax error is reported as at least 1.                      *)
(***************************************************************************)
\* whether the token w directly after the expression h is a token of its own
Separate(h, w) ==
    \/ h[Len(h)] = ")"
    \/ w[1] \in {"(", ")", "$"}
    \/ isdigit(h[Len(h)]) /\ isalpha(w[1]) /\ w[1] \notin {"I", "e", "E"}

\* the texts h g w r with the offset where w starts and where it ends
TrailCase(h, g, w, r) ==
    [text |-> h \o g \o w \o r, off |-> Len(h) + Len(g),
     end |-> Len(h) + Len(g) + Len(w)]

TrailCases ==
    {c \in {TrailCase(h, g, w, r) :
                h \in TrailHeads, g \in TrailGaps, w \in TrailTokens, r \in TrailRests} :
        \E h \in TrailHeads, g \in TrailGaps, w \in TrailTokens, r \in TrailRests :
            c = TrailCase(h, g, w, r) /\ (g # <<>> \/ Separate(h, w))}

C3_TrailingInput ==
    /\ (pc = "failed" /\ ~oom) => (root = NULL /\ error >= 1)
    /\ (Returned /\ lookup = Std) =>
          \A c \in TrailCases : c.text = expression =>
              (pc = "failed" /\ root = NULL /\ error = c.end)

\* C3 as claimed: the offset is that of the first unconsumed token, counted
\* from 0 or from 1
C3_Original ==
    (Returned /\ lookup = Std) =>
        \A c \in TrailCases : c.text = expression =>
            (pc = "failed" /\ root = NULL /\ error \in {c.off, c.off + 1})

\* "2+2 33": the offset reported is 6, past the two-character numeral at 4
C3_Witness ==
    /\ pc = "failed"
    /\ ~oom
    /\ expression = <<"2", "+", "2", " ", "3", "3">>
    /\ root = NULL
    /\ error = 6

(***************************************************************************)
(* C4.  tx_eval on a null handle, and tx_interp on an expression that      *)
(* fails to compile, return the conversion of NAN to a complex value: the  *)
(* real component is not-a-number and the imaginary component is zero.     *)
(***************************************************************************)
C4_NotANumber ==
    /\ (pc = "evaluated" /\ root = NULL) => result = Cx(NAN, Real(0, 0))
    /\ (pc = "interpreted" /\ error # 0) => result = Cx(NAN, Real(0, 0))

\* C4 as claimed: both components are not-a-number
C4_Original ==
    /\ (pc = "evaluated" /\ root = NULL) => result = Cx(NAN, NAN)
    /\ (pc = "interpreted" /\ error # 0) => result = Cx(NAN, NAN)

\* tx_interp on a text with a syntax error has returned
C4_Witness ==
    /\ pc = "interpreted"
    /\ error > 0
    /\ result.re = NAN

(***************************************************************************)
(* C5.  After a successful tx_compile the tree contains no Function or     *)
(* Closure node that is marked pure and whose children are all Constant,   *)
(* at any depth and under any kind of parent.                              *)
(***************************************************************************)
\* n is a pure call whose children are all constants
Foldable(n) ==
    /\ TYPE_MASK(heap[n].type) \in (TX_FUNCTION0 .. TX_FUNCTION0 + 6)
                                     \cup (TX_CLOSURE0 .. TX_CLOSURE0 + 6)
    /\ IS_PURE(heap[n].type)
    /\ \A i \in 1..ARITY(heap[n].type) :
           heap[heap[n].parameters[i]].type = TX_CONSTANT

C5_FoldedEverywhere ==
    (pc = "compiled" /\ root # NULL) => \A n \in live : ~Foldable(n)

(***************************************************************************)
(* C6.  A call to a function of arity N >= 2 compiles only when the name   *)
(* is followed by '(', exactly N comma-separated arguments and ')'; with   *)
(* fewer or more arguments, a missing '(' or a missing ')' tx_compile      *)
(* returns no handle and a syntax-error offset that is not zero and is at  *)
(* or after the position of the mismatch.                                  *)
(***************************************************************************)
\* the arity of the functions the call texts name
CallArity(n) == IF n = <<"t">> THEN 3 ELSE 2

\* the call text p n o l c with k arguments: whether it is well formed, and
\* the offset where it stops being so
CallCase(p, n, o, k, l, c) ==
    [text |-> p \o n \o o \o l \o c,
     ok |-> o = <<"(">> /\ k = CallArity(n) /\ c = <<")">>,
     off |-> IF o # <<"(">> THEN Len(p) + Len(n)
             ELSE IF k < CallArity(n) THEN Len(p) + Len(n) + 1 + Len(l)
             ELSE IF k > CallArity(n) THEN Len(p) + Len(n) + 2 * CallArity(n)
             ELSE Len(p) + Len(n) + 1 + Len(l)]

CallCases ==
    UNION {{CallCase(p, n, o, k, l, c) :
               p \in CallLeads, n \in CallNames, o \in CallOpens,
               l \in ArgLists(k), c \in CallCloses} : k \in 0..MaxArgs}

C6_ExactArity ==
    (Returned /\ lookup = Std) =>
        \A c \in CallCases : c.text = expression =>
            IF c.ok THEN pc = "compiled" /\ root # NULL /\ error = 0
            ELSE pc = "failed" /\ root = NULL /\ error >= 1 /\ error >= c.off

\* "pow(2)" has failed with the offset after the closing parenthesis
C6_Witness ==
    /\ pc = "failed"
    /\ ~oom
    /\ expression = <<"p", "o", "w", "(", "2", ")">>
    /\ root = NULL
    /\ error = 6

(***************************************************************************)
(* C7.  Every binary operator level is left-associative: a chain           *)
(* a op1 b op2 c of operators of one precedence level evaluates as         *)
(* (a op1 b) op2 c, and "2^3^2" is (2^3)^2 = 64.                           *)
(***************************************************************************)
ChainCase(a, o1, b, o2, c) ==
    [text |-> a \o <<o1>> \o b \o <<o2>> \o c, a |-> a, o1 |-> o1, b |-> b,
     o2 |-> o2, c |-> c]

ChainCases ==
    {ChainCase(a, o[1], b, o[2], c) :
        a \in Atoms, b \in Atoms, c \in Atoms,
        o \in {q \in BinOps \X BinOps : Level(q[1]) = Level(q[2])}}

C7_LeftAssociative ==
    /\ (Returned /\ lookup = Std) =>
          \A c \in ChainCases : c.text = expression =>
              /\ pc = "compiled"
              /\ Value = Apply(InfixFn(c.o2), NULL,
                               <<Apply(InfixFn(c.o1), NULL,
                                       <<AtomValue(c.a), AtomValue(c.b)>>),
                                 AtomValue(c.c)>>)
    /\ (Returned /\ expression = <<"2", "^", "3", "^", "2">>) => Denote(Value) = 64

\* "x^3^2" has compiled to the tree cpow(cpow(x, 3), 2)
C7_Witness ==
    /\ pc = "compiled"
    /\ expression = <<"x", "^", "3", "^", "2">>
    /\ heap[root].u = UFunction(cpow)
    /\ heap[heap[root].parameters[1]].u = UFunction(cpow)
    /\ heap[heap[heap[root].parameters[1]].parameters[1]].type = TX_VARIABLE
    /\ heap[heap[root].parameters[2]].type = TX_CONSTANT

(***************************************************************************)
(* C8.  A run of leading '+' and '-' signs before a base binds tighter     *)
(* than '^' and collapses to at most one negate node: exactly one when the *)
(* number of '-' is odd, none when it is even; "-2^2" is (-2)^2 = 4 and    *)
(* "--2" has no negate.                                                    *)
(***************************************************************************)
\* whether the number of '-' in w is odd
OddMinus(w) == Cardinality({i \in 1..Len(w) : w[i] = "-"}) % 2 = 1

SignCase(w, a, r) == [text |-> w \o a \o r, w |-> w, a |-> a, r |-> r]

SignCases ==
    {SignCase(w, a, r) : w \in Strings({"+", "-"}, MaxSigns), a \in Atoms, r \in SignTails}

\* the value of the signed base
SignedValue(w, a) ==
    IF OddMinus(w) THEN Apply(negate, NULL, <<AtomValue(a)>>) ELSE AtomValue(a)

C8_UnarySigns ==
    /\ (Returned /\ lookup = Std) =>
          \A c \in SignCases : c.text = expression =>
              /\ pc = "compiled"
              /\ Value = IF c.r = <<>> THEN SignedValue(c.w, c.a)
                         ELSE Apply(cpow, NULL, <<SignedValue(c.w, c.a),
                                                  ToComplex(Real(2, 0))>>)
              /\ Len(heap) = 1 + (IF OddMinus(c.w) THEN 1 ELSE 0)
                               + (IF c.r = <<>> THEN 0 ELSE 2)
    /\ (Returned /\ expression = <<"-", "2", "^", "2">>) => Denote(Value) = 4

\* "--x^2" has compiled to cpow(x, 2) with no negate
C8_Witness ==
    /\ pc = "compiled"
    /\ expression = <<"-", "-", "x", "^", "2">>
    /\ Len(heap) = 3
    /\ heap[root].u = UFunction(cpow)
    /\ heap[heap[root].parameters[1]].type = TX_VARIABLE

(***************************************************************************)
(* C9.  An identifier resolves to the first binding, in list order, whose  *)
(* name is exactly the lexeme, and to the builtin of exactly that name     *)
(* only when no binding matches; an identifier that matches neither is an  *)
(* Error token and the compile fails.                                      *)
(***************************************************************************)
\* the text is one identifier
IsIdent(text) ==
    /\ text # <<>>
    /\ isalpha(text[1])
    /\ \A i \in 1..Len(text) : isalpha(text[i]) \/ isdigit(text[i]) \/ text[i] = "_"

\* the entry the name stands for: <<>> when there is none
FirstMatch(bindings, name) ==
    IF \E i \in 1..Len(bindings) : bindings[i].name = name
    THEN <<bindings[CHOOSE i \in 1..Len(bindings) :
                /\ bindings[i].name = name
                /\ \A j \in 1..(i - 1) : bindings[j].name # name]>>
    ELSE IF \E i \in 1..Len(functions) : functions[i].name = name
    THEN <<functions[CHOOSE i \in 1..Len(functions) : functions[i].name = name]>>
    ELSE <<>>

\* the first token of the text is what the entry r says
TokenIs(tok, r) ==
    IF r = <<>> THEN tok.type = TOK_ERROR
    ELSE IF r[1].type = TX_VARIABLE
    THEN tok.type = TOK_VARIABLE /\ tok.u = UBound(r[1].address)
    ELSE tok.type = r[1].type /\ tok.u = UFunction(r[1].address)
                              /\ (IS_CLOSURE(r[1].type) => tok.context = r[1].context)

\* the compile of the text has the outcome the entry r says
OutcomeIs(r) ==
    IF r = <<>> THEN pc = "failed" /\ root = NULL /\ error = Len(expression)
    ELSE IF r[1].type = TX_VARIABLE
    THEN /\ pc = "compiled"
         /\ heap[root].type = TX_VARIABLE
         /\ heap[root].u = UBound(r[1].address)
    ELSE IF ARITY(r[1].type) = 0
    THEN /\ pc = "compiled"
         /\ Value = Apply(r[1].address, r[1].context, <<>>)
    ELSE pc = "failed" /\ root = NULL

C9_Resolution ==
    (Returned /\ IsIdent(expression)) =>
        /\ TokenIs(tx_next_token(NewState(expression, lookup, mem, 0)),
                   FirstMatch(lookup, expression))
        /\ tx_next_token(NewState(expression, lookup, mem, 0)).next = Len(expression) + 1
        /\ OutcomeIs(FirstMatch(lookup, expression))

\* "pi" has compiled to the variable of the first of two bindings named pi
C9_Witness ==
    /\ pc = "compiled"
    /\ expression = <<"p", "i">>
    /\ lookup = ShadowA
    /\ heap[root].type = TX_VARIABLE
    /\ heap[root].u = UBound(1)

(***************************************************************************)
(* C10.  tx_eval on a Function or Closure node evaluates its children in   *)
(* the order 0, 1, ..., k-1, each to completion before the next, and then  *)
(* calls the function; the order is the same on every evaluation.          *)
(***************************************************************************)
RECURSIVE LeftToRight(_)
RECURSIVE LeftToRightFrom(_, _, _)
\* the traces of the children i..k of n, one after the other
LeftToRightFrom(n, i, k) ==
    IF i > k THEN <<>>
    ELSE LeftToRight(heap[n].parameters[i]) \o LeftToRightFrom(n, i + 1, k)

\* the trace of the evaluation of n that takes the children in order
LeftToRight(n) ==
    IF TYPE_MASK(heap[n].type) = TX_CONSTANT THEN <<>>
    ELSE IF TYPE_MASK(heap[n].type) = TX_VARIABLE THEN <<Event("read", n)>>
    ELSE LeftToRightFrom(n, 1, ARITY(heap[n].type)) \o <<Event("call", n)>>

C10_LeftToRight ==
    (pc = "evaluated" /\ root # NULL) => trace = LeftToRight(root)

(***************************************************************************)
(* C11.  On every path through tx_compile, constant folding and tx_free,   *)
(* every node allocated is released exactly once: what free was handed is  *)
(* a node that was allocated, never the same node twice, never NULL and    *)
(* never a closure's context; while the caller holds the handle the nodes  *)
(* not yet released are exactly those of the tree, each with one parent;   *)
(* once the compile has failed or the handle was freed none is left.       *)
(***************************************************************************)
\* the children of the node n
Children(n) == {heap[n].parameters[i] : i \in 1..ARITY(heap[n].type)}

RECURSIVE Reach(_)
\* the nodes of the tree under n
Reach(n) == IF n = NULL THEN {} ELSE {n} \cup UNION {Reach(c) : c \in Children(n)}

\* the places of the tree that hold a child
ChildSlots == {sl \in live \X (1..6) : sl[2] <= ARITY(heap[sl[1]].type)}

C11_ReleasedOnce ==
    /\ \A i \in 1..Len(freed) : freed[i] \in 1..Len(heap)
    /\ \A i \in 1..Len(freed) : \A j \in 1..Len(freed) : freed[i] = freed[j] => i = j
    /\ live \cup {freed[i] : i \in 1..Len(freed)} = 1..Len(heap)
    /\ live \cap {freed[i] : i \in 1..Len(freed)} = {}
    /\ pc \in {"failed", "released", "interpreted"} => live = {}
    /\ root = NULL => live = {}
    /\ root # NULL =>
          /\ live = Reach(root)
          /\ \A a \in ChildSlots : \A b \in ChildSlots :
                 heap[a[1]].parameters[a[2]] = heap[b[1]].parameters[b[2]] => a = b
          /\ \A a \in ChildSlots : heap[a[1]].parameters[a[2]] # root

\* "2+3+x" was compiled, 2+3 folded with its two operands released, and
\* the handle then freed
C11_Witness ==
    /\ pc = "released"
    /\ expression = <<"2", "+", "3", "+", "x">>
    /\ Len(heap) = 5
    /\ Len(freed) = 5
    /\ live = {}

(***************************************************************************)
(* C12.  tx_compile leaves as the parser built it (type, function pointer  *)
(* or bound address, children and context) every node that is a variable,  *)
(* an impure function or closure, or a node with a child that is not a     *)
(* Constant after the optimizer has run, also when all the arguments of an *)
(* impure closure are constants.                                           *)
(***************************************************************************)
\* the node n as the parser built it (in the heap ph) may not be folded
Unfoldable(ph, n) ==
    \/ ph[n].type = TX_VARIABLE
    \/ /\ TYPE_MASK(ph[n].type) \in (TX_FUNCTION0 .. TX_FUNCTION0 + 6)
                                      \cup (TX_CLOSURE0 .. TX_CLOSURE0 + 6)
       /\ ~IS_PURE(ph[n].type)
    \/ \E i \in 1..ARITY(ph[n].type) : heap[ph[n].parameters[i]].type # TX_CONSTANT

C12_NeverFolded ==
    (pc = "compiled" /\ root # NULL) =>
        \E p \in {Parse(expression, lookup, mem, 0)} :
            /\ Len(heap) = Len(p.heap)
            /\ \A n \in 1..Len(heap) : Unfoldable(p.heap, n) => heap[n] = p.heap[n]

\* "k(2)" with the impure closure k: the argument is a constant, the call is kept
C12_Witness ==
    /\ pc = "compiled"
    /\ lookup = Closures
    /\ expression = <<"k", "(", "2", ")">>
    /\ heap[root].type = TX_CLOSURE1
    /\ heap[root].u = UFunction("uk")
    /\ heap[root].parameters[2] = 103
    /\ heap[heap[root].parameters[1]].type = TX_CONSTANT

(***************************************************************************)
(* C13.  Every tree returned by a successful tx_compile is well formed:    *)
(* each Function or Closure node has a function pointer and exactly        *)
(* arity children, none of them null (a Closure also the context of its    *)
(* binding); every other node is a Constant holding a value or a           *)
(* VariableRef holding the address of a variable binding of the caller;    *)
(* no node of the tree is the placeholder base makes for an unexpected     *)
(* token, and a compile that made a placeholder has failed.                *)
(***************************************************************************)
\* n is a call node
IsCall(n) ==
    TYPE_MASK(heap[n].type) \in (TX_FUNCTION0 .. TX_FUNCTION0 + 6)
                                  \cup (TX_CLOSURE0 .. TX_CLOSURE0 + 6)

\* n is the node base makes for an unexpected token
IsPlaceholder(n) == heap[n].type = 0 /\ heap[n].u.k = "value"

WellFormed(n) ==
    IF IsCall(n)
    THEN /\ heap[n].u.k = "function"
         /\ \A i \in 1..ARITY(heap[n].type) :
                heap[n].parameters[i] # NULL /\ heap[n].parameters[i] \in live
         /\ IF IS_CLOSURE(heap[n].type)
            THEN /\ Len(heap[n].parameters) = ARITY(heap[n].type) + 1
                 /\ \E i \in 1..Len(lookup) :
                        /\ lookup[i].type = heap[n].type
                        /\ lookup[i].address = heap[n].u.f
                        /\ lookup[i].context = heap[n].parameters[ARITY(heap[n].type) + 1]
            ELSE Len(heap[n].parameters) = ARITY(heap[n].type)
    ELSE IF heap[n].type = TX_CONSTANT THEN heap[n].u.k = "value"
    ELSE /\ heap[n].type = TX_VARIABLE
         /\ heap[n].u.k = "bound"
         /\ \E i \in 1..Len(lookup) :
                lookup[i].type = TX_VARIABLE /\ lookup[i].address = heap[n].u.a

C14_Terminates ==
    /\ pc \in {"compiled", "failed"} =>
          \/ root # NULL /\ error = 0
          \/ root = NULL /\ error # 0
    /\ work.reads <= Len(expression) + 2
    /\ work.next \in 1..(Len(expression) + 1)
    /\ work.stalls <= 2
    /\ work.stalls > 0 =>
          /\ root = NULL
          /\ error # 0
          /\ CharAt(expression, work.next) = "."
          /\ ~isdigit(CharAt(expression, work.next + 1))

\* C14 as claimed: every token read advances the cursor, also on a bare "."
C14_Original == work.stalls = 0

\* "2+.": the '.' was read twice with the cursor before it, and the compile failed
C14_Witness ==
    /\ pc = "failed"
    /\ ~oom
    /\ expression = <<"2", "+", ".">>
    /\ work = [reads |-> 4, stalls |-> 2, next |-> 3]
    /\ error = 2

====
